---- MODULE Spec2Model ----
(***************************************************************************)
(* Quick-Notes: the in-memory Note Store and Token Store (storage.ts), the *)
(* Auth Core (authService.ts) and the Notes Core (notesService.ts), called *)
(* with the values the routes hand over from the parsed JSON request body. *)
(* The HTTP boundary (authMiddleware and the routes) is modelled on top.    *)
(***************************************************************************)
EXTENDS Integers, Sequences, FiniteSets, TLC

(***************************************************************************)
(* Bounds of the model.                                                    *)
(***************************************************************************)
\* createNote allocates at most MaxNotes note ids
MaxNotes == 2
\* generateToken issues at most MaxTokens tokens
MaxTokens == 2
\* the same where every combination of a title and a body is tried
MaxInputNotes == 1
\* the same where the calls of the Auth Core are followed
MaxAuthNotes == 1
\* the wall clock (milliseconds) takes the values 0..MaxClock
MaxClock == 1
\* POST /auth/mock-login issues at most MaxHttpTokens tokens
MaxHttpTokens == 2
\* POST /notes stores at most MaxHttpNotes notes
MaxHttpNotes == 2

(***************************************************************************)
(* Program constants.                                                      *)
(***************************************************************************)
MaxTitleLen == 80
MaxBodyLen == 500

(***************************************************************************)
(* JavaScript values that JSON can put into title and body.  A string is   *)
(* kept run-length encoded: runs of blanks (" ") and of letters.           *)
(***************************************************************************)
Run(c, n) == [c |-> c, n |-> n]
Str(runs) == [kind |-> "string", runs |-> runs, num |-> 0]
Num(n) == [kind |-> "number", runs |-> <<>>, num |-> n]
Undefined == [kind |-> "undefined", runs |-> <<>>, num |-> 0]
Null == [kind |-> "null", runs |-> <<>>, num |-> 0]
\* the array [s] of one string s: num is its length (the number of elements)
ArrayOf(s) == [kind |-> "array", runs |-> s.runs, num |-> 1]
EmptyStr == Str(<<>>)

RECURSIVE RunsLen(_)
RunsLen(runs) == IF runs = <<>> THEN 0 ELSE Head(runs).n + RunsLen(Tail(runs))

\* String.prototype.length, Array.prototype.length
length(s) == IF s.kind = "array" THEN s.num ELSE RunsLen(s.runs)

IsBlankRun(r) == r.c = " "

RECURSIVE TrimStart(_)
TrimStart(runs) ==
    IF runs = <<>> THEN <<>>
    ELSE IF IsBlankRun(Head(runs)) THEN TrimStart(Tail(runs))
    ELSE runs

RECURSIVE TrimEnd(_)
TrimEnd(runs) ==
    IF runs = <<>> THEN <<>>
    ELSE IF IsBlankRun(runs[Len(runs)]) THEN TrimEnd(SubSeq(runs, 1, Len(runs) - 1))
    ELSE runs

\* String.prototype.trim
trim(s) == Str(TrimEnd(TrimStart(s.runs)))

\* JavaScript ToBoolean(v) = false
Falsy(v) ==
    \/ v.kind \in {"undefined", "null"}
    \/ v.kind = "string" /\ length(v) = 0
    \/ v.kind = "number" /\ v.num = 0

(***************************************************************************)
(* Identifiers, tokens, timestamps.                                        *)
(***************************************************************************)
\* `note_${uuidv4()}` and `fake_${uuidv4()}`: a prefix and the n-th uuid
NoteId(n) == [prefix |-> "note_", uuid |-> n]
Token(n) == [prefix |-> "fake_", uuid |-> n]
\* the same text in upper case, and the empty string
ToUpperCase(t) == [prefix |-> IF t.prefix = "fake_" THEN "FAKE_" ELSE t.prefix, uuid |-> t.uuid]
EmptyToken == [prefix |-> "", uuid |-> 0]
NoId == [prefix |-> "", uuid |-> 0]

\* new Date().toISOString() and new Date(text).getTime(): ISO text of a millisecond count
toISOString(ms) == <<ms>>
getTime(iso) == iso[1]
\* updatedAt?: absent
Absent == <<>>

(***************************************************************************)
(* storage.ts: two Maps, kept as their entries in insertion order.         *)
(***************************************************************************)
VARIABLES notes, tokens, noteSeq, tokenSeq, now, last

vars == <<notes, tokens, noteSeq, tokenSeq, now, last>>

HasNote(ns, id) == \E i \in 1..Len(ns) : ns[i].id = id
NoteIndex(ns, id) == CHOOSE i \in 1..Len(ns) : ns[i].id = id

\* Storage.getNote: the note in a one-element sequence, <<>> for undefined
getNote(ns, id) == IF HasNote(ns, id) THEN <<ns[NoteIndex(ns, id)]>> ELSE <<>>

\* Storage.saveNote: Map.set keeps the position of an existing key
saveNote(ns, note) ==
    IF HasNote(ns, note.id) THEN [ns EXCEPT ![NoteIndex(ns, note.id)] = note]
    ELSE Append(ns, note)

\* Storage.deleteNote
storageDeleteNote(ns, id) == SelectSeq(ns, LAMBDA n : n.id # id)

\* Array.prototype.sort with (a, b) => time(b) - time(a): stable, newest first
RECURSIVE InsertDesc(_, _)
InsertDesc(sorted, x) ==
    IF sorted = <<>> THEN <<x>>
    ELSE IF getTime(Head(sorted).createdAt) >= getTime(x.createdAt)
         THEN <<Head(sorted)>> \o InsertDesc(Tail(sorted), x)
         ELSE <<x>> \o sorted

RECURSIVE SortDesc(_)
SortDesc(s) ==
    IF s = <<>> THEN <<>>
    ELSE InsertDesc(SortDesc(SubSeq(s, 1, Len(s) - 1)), s[Len(s)])

\* the user's notes in the order of the Map, not sorted
getNotesByUser_Unsorted(ns, userId) == SelectSeq(ns, LAMBDA n : n.userId = userId)

\* Storage.getNotesByUser
getNotesByUser(ns, userId) == SortDesc(SelectSeq(ns, LAMBDA n : n.userId = userId))

HasToken(ts, token) == \E i \in 1..Len(ts) : ts[i].token = token
TokenIndex(ts, token) == CHOOSE i \in 1..Len(ts) : ts[i].token = token

\* one token per user: saving a token drops the user's earlier ones
saveToken_OnePerUser(ts, token, userId) ==
    Append(SelectSeq(ts, LAMBDA e : e.userId # userId), [token |-> token, userId |-> userId])

\* Storage.saveToken
saveToken(ts, token, userId) ==
    IF HasToken(ts, token)
    THEN [ts EXCEPT ![TokenIndex(ts, token)] = [token |-> token, userId |-> userId]]
    ELSE Append(ts, [token |-> token, userId |-> userId])

\* a lookup that ignores letter case
getUserIdByToken_IgnoreCase(ts, token) ==
    IF \E i \in 1..Len(ts) : ToUpperCase(ts[i].token) = ToUpperCase(token)
    THEN <<ts[CHOOSE i \in 1..Len(ts) : ToUpperCase(ts[i].token) = ToUpperCase(token)].userId>>
    ELSE <<>>

\* Storage.getUserIdByToken: the userId in a one-element sequence, <<>> for undefined
getUserIdByToken(ts, token) ==
    IF HasToken(ts, token) THEN <<ts[TokenIndex(ts, token)].userId>> ELSE <<>>

(***************************************************************************)
(* notesService.ts: validation.                                            *)
(***************************************************************************)
NoError == "null"
\* an uncaught TypeError ("title.trim is not a function", "Cannot read properties of null")
TypeError == "TypeError"

\* the limit applied to the title as given, before trimming
validateTitle_Untrimmed(title) ==
    IF Falsy(title) THEN "Title is required"
    ELSE IF title.kind # "string" THEN TypeError
    ELSE IF length(trim(title)) = 0 THEN "Title is required"
    ELSE IF length(title) > MaxTitleLen THEN "Title must not exceed 80 characters"
    ELSE NoError

\* NotesService.validateTitle
validateTitle(title) ==
    IF Falsy(title) THEN "Title is required"
    ELSE IF title.kind # "string" THEN TypeError
    ELSE IF length(trim(title)) = 0 THEN "Title is required"
    ELSE IF length(trim(title)) > MaxTitleLen THEN "Title must not exceed 80 characters"
    ELSE NoError

\* the limit off by one: a body of exactly 500 characters is rejected
validateBody_AtLeast(body) ==
    IF body.kind = "undefined" THEN NoError
    ELSE IF body.kind = "null" THEN TypeError
    ELSE IF body.kind \in {"string", "array"} /\ length(body) >= MaxBodyLen
         THEN "Body must not exceed 500 characters"
    ELSE NoError

\* NotesService.validateBody
validateBody(body) ==
    IF body.kind = "undefined" THEN NoError
    ELSE IF body.kind = "null" THEN TypeError
    ELSE IF body.kind \in {"string", "array"} /\ length(body) > MaxBodyLen
         THEN "Body must not exceed 500 characters"
    ELSE NoError

(***************************************************************************)
(* Results of the core calls.                                              *)
(***************************************************************************)
Ret(kind, error, note, ns) == [kind |-> kind, error |-> error, note |-> note, notes |-> ns]

\* the body validated before the title
createNote_BodyFirst(ns, uuid, ms, userId, dto) ==
    LET titleError == validateTitle(dto.title)
        bodyError == validateBody(dto.body)
        note == [id |-> NoteId(uuid),
                 userId |-> userId,
                 title |-> trim(dto.title),
                 body |-> IF Falsy(dto.body) THEN EmptyStr ELSE dto.body,
                 createdAt |-> toISOString(ms),
                 updatedAt |-> Absent]
    IN  IF bodyError = TypeError THEN Ret("throw", TypeError, <<>>, ns)
        ELSE IF bodyError # NoError THEN Ret("error", bodyError, <<>>, ns)
        ELSE IF titleError = TypeError THEN Ret("throw", TypeError, <<>>, ns)
        ELSE IF titleError # NoError THEN Ret("error", titleError, <<>>, ns)
        ELSE Ret("note", NoError, <<note>>, saveNote(ns, note))

\* a new note given an updatedAt equal to its createdAt
createNote_StampsUpdatedAt(ns, uuid, ms, userId, dto) ==
    LET titleError == validateTitle(dto.title)
        bodyError == validateBody(dto.body)
        note == [id |-> NoteId(uuid),
                 userId |-> userId,
                 title |-> trim(dto.title),
                 body |-> IF Falsy(dto.body) THEN EmptyStr ELSE dto.body,
                 createdAt |-> toISOString(ms),
                 updatedAt |-> toISOString(ms)]
    IN  IF titleError = TypeError THEN Ret("throw", TypeError, <<>>, ns)
        ELSE IF titleError # NoError THEN Ret("error", titleError, <<>>, ns)
        ELSE IF bodyError = TypeError THEN Ret("throw", TypeError, <<>>, ns)
        ELSE IF bodyError # NoError THEN Ret("error", bodyError, <<>>, ns)
        ELSE Ret("note", NoError, <<note>>, saveNote(ns, note))

\* NotesService.createNote
createNote(ns, uuid, ms, userId, dto) ==
    LET titleError == validateTitle(dto.title)
        bodyError == validateBody(dto.body)
        note == [id |-> NoteId(uuid),
                 userId |-> userId,
                 title |-> trim(dto.title),
                 body |-> IF Falsy(dto.body) THEN EmptyStr ELSE dto.body,
                 createdAt |-> toISOString(ms),
                 updatedAt |-> Absent]
    IN  IF titleError = TypeError THEN Ret("throw", TypeError, <<>>, ns)
        ELSE IF titleError # NoError THEN Ret("error", titleError, <<>>, ns)
        ELSE IF bodyError = TypeError THEN Ret("throw", TypeError, <<>>, ns)
        ELSE IF bodyError # NoError THEN Ret("error", bodyError, <<>>, ns)
        ELSE Ret("note", NoError, <<note>>, saveNote(ns, note))

\* NotesService.getUserNotes
getUserNotes(ns, userId) == getNotesByUser(ns, userId)

\* the ownership check left out
ownerMismatch_Never(note, userId) == FALSE

\* updateNote / deleteNote: if (note.userId !== userId)
ownerMismatch(note, userId) == note.userId # userId

\* the check for an empty dto left out
noFields_Never(dto) == FALSE

\* updateNote: if (dto.title === undefined && dto.body === undefined)
noFields(dto) == dto.title.kind = "undefined" /\ dto.body.kind = "undefined"

\* the supplied title stored as given
updatedTitle_Untrimmed(note, dto) == IF dto.title.kind # "undefined" THEN dto.title ELSE note.title

\* updateNote: title: dto.title !== undefined ? dto.title.trim() : note.title
updatedTitle(note, dto) == IF dto.title.kind # "undefined" THEN trim(dto.title) ELSE note.title

\* updateNote: body: dto.body !== undefined ? dto.body : note.body
updatedBody(note, dto) == IF dto.body.kind # "undefined" THEN dto.body ELSE note.body

\* the fields validated before the note is looked up and its owner compared
updateNote_ValidateFirst(ns, ms, noteId, userId, dto) ==
    LET found == getNote(ns, noteId)
        note == found[1]
        titleError == IF dto.title.kind # "undefined" THEN validateTitle(dto.title) ELSE NoError
        bodyError == IF dto.body.kind # "undefined" THEN validateBody(dto.body) ELSE NoError
        updatedNote == [note EXCEPT !.title = updatedTitle(note, dto),
                                    !.body = updatedBody(note, dto),
                                    !.updatedAt = toISOString(ms)]
    IN  IF noFields(dto) THEN Ret("error", "No updatable fields provided", <<>>, ns)
        ELSE IF titleError = TypeError THEN Ret("throw", TypeError, <<>>, ns)
        ELSE IF titleError # NoError THEN Ret("error", titleError, <<>>, ns)
        ELSE IF bodyError = TypeError THEN Ret("throw", TypeError, <<>>, ns)
        ELSE IF bodyError # NoError THEN Ret("error", bodyError, <<>>, ns)
        ELSE IF found = <<>> THEN Ret("notFound", NoError, <<>>, ns)
        ELSE IF ownerMismatch(note, userId) THEN Ret("forbidden", NoError, <<>>, ns)
        ELSE Ret("note", NoError, <<updatedNote>>, saveNote(ns, updatedNote))

\* a blank title taken as a title that was not supplied
updateNote_BlankAsOmitted(ns, ms, noteId, userId, dto) ==
    LET found == getNote(ns, noteId)
        note == found[1]
        omitted == dto.title.kind = "undefined"
                   \/ (dto.title.kind = "string" /\ trim(dto.title) = EmptyStr)
        titleError == IF ~omitted THEN validateTitle(dto.title) ELSE NoError
        bodyError == IF dto.body.kind # "undefined" THEN validateBody(dto.body) ELSE NoError
        updatedNote == [note EXCEPT !.title = IF omitted THEN note.title ELSE trim(dto.title),
                                    !.body = updatedBody(note, dto),
                                    !.updatedAt = toISOString(ms)]
    IN  IF found = <<>> THEN Ret("notFound", NoError, <<>>, ns)
        ELSE IF ownerMismatch(note, userId) THEN Ret("forbidden", NoError, <<>>, ns)
        ELSE IF noFields(dto) THEN Ret("error", "No updatable fields provided", <<>>, ns)
        ELSE IF titleError = TypeError THEN Ret("throw", TypeError, <<>>, ns)
        ELSE IF titleError # NoError THEN Ret("error", titleError, <<>>, ns)
        ELSE IF bodyError = TypeError THEN Ret("throw", TypeError, <<>>, ns)
        ELSE IF bodyError # NoError THEN Ret("error", bodyError, <<>>, ns)
        ELSE Ret("note", NoError, <<updatedNote>>, saveNote(ns, updatedNote))

\* NotesService.updateNote
updateNote(ns, ms, noteId, userId, dto) ==
    LET found == getNote(ns, noteId)
        note == found[1]
        titleError == IF dto.title.kind # "undefined" THEN validateTitle(dto.title) ELSE NoError
        bodyError == IF dto.body.kind # "undefined" THEN validateBody(dto.body) ELSE NoError
        updatedNote == [note EXCEPT !.title = updatedTitle(note, dto),
                                    !.body = updatedBody(note, dto),
                                    !.updatedAt = toISOString(ms)]
    IN  IF found = <<>> THEN Ret("notFound", NoError, <<>>, ns)
        ELSE IF ownerMismatch(note, userId) THEN Ret("forbidden", NoError, <<>>, ns)
        ELSE IF noFields(dto) THEN Ret("error", "No updatable fields provided", <<>>, ns)
        ELSE IF titleError = TypeError THEN Ret("throw", TypeError, <<>>, ns)
        ELSE IF titleError # NoError THEN Ret("error", titleError, <<>>, ns)
        ELSE IF bodyError = TypeError THEN Ret("throw", TypeError, <<>>, ns)
        ELSE IF bodyError # NoError THEN Ret("error", bodyError, <<>>, ns)
        ELSE Ret("note", NoError, <<updatedNote>>, saveNote(ns, updatedNote))

\* a delete that does not compare the owner
deleteNote_AnyUser(ns, noteId, userId) ==
    LET found == getNote(ns, noteId) IN
    IF found = <<>> THEN Ret("notFound", NoError, <<>>, ns)
    ELSE Ret("success", NoError, <<>>, storageDeleteNote(ns, noteId))

\* NotesService.deleteNote
deleteNote(ns, noteId, userId) ==
    LET found == getNote(ns, noteId) IN
    IF found = <<>> THEN Ret("notFound", NoError, <<>>, ns)
    ELSE IF ownerMismatch(found[1], userId) THEN Ret("forbidden", NoError, <<>>, ns)
    ELSE Ret("success", NoError, <<>>, storageDeleteNote(ns, noteId))

(***************************************************************************)
(* authService.ts.                                                         *)
(***************************************************************************)
\* AuthService.validateToken: userId || null, null being <<>>
validateToken(ts, token) ==
    LET userId == getUserIdByToken(ts, token) IN
    IF userId = <<>> \/ userId[1] = "" THEN <<>> ELSE userId

(***************************************************************************)
(* The inputs of the calls.                                                *)
(***************************************************************************)
UserIds == {"alice", "bob"}

Blank2 == Str(<<Run(" ", 2)>>)
TitleA == Str(<<Run(" ", 1), Run("a", 1), Run(" ", 1)>>)
Title80 == Str(<<Run(" ", 1), Run("a", MaxTitleLen), Run(" ", 1)>>)
Title81 == Str(<<Run("a", MaxTitleLen + 1)>>)
Body500 == Str(<<Run(" ", 1), Run("b", MaxBodyLen - 2), Run(" ", 1)>>)
Body501 == Str(<<Run("b", MaxBodyLen + 1)>>)

Titles == {Undefined, EmptyStr, Blank2, TitleA, Title80, Title81, Num(7)}
Bodies == {Undefined, EmptyStr, Body500, Body501, Num(7), Null, ArrayOf(Body501)}
\* every combination of a title and a body
AllDtos == [title : Titles, body : Bodies]
Dto(title, body) == [title |-> title, body |-> body]
\* one request body of each kind: title only, body only, nothing, both invalid, not a
\* string, both fields
Dtos == {Dto(TitleA, Undefined), Dto(Undefined, Body500), Dto(Undefined, Undefined),
         Dto(Blank2, Body501), Dto(Num(7), Undefined),
         Dto(TitleA, Body500)}
\* a request body that creates a note, one that updates it
AuthDtos == {Dto(TitleA, Undefined), Dto(Undefined, Body500)}
NoDto == [title |-> Undefined, body |-> Undefined]
\* ids of notes that exist, existed, or were never created
NoteIds == {NoteId(n) : n \in 1..(MaxNotes + 1)}
\* issued tokens, their upper-case spellings, never-issued ones and the empty string
TokenStrings == {Token(n) : n \in 1..(MaxTokens + 1)}
                \cup {ToUpperCase(Token(n)) : n \in 1..MaxTokens} \cup {EmptyToken}

\* what a call was given and what it returned; Idle when no call is outstanding
Call(op, userId, noteId, dto, token, r, list, value) ==
    [op |-> op, userId |-> userId, noteId |-> noteId, dto |-> dto, token |-> token,
     kind |-> r.kind, error |-> r.error, note |-> r.note, list |-> list, value |-> value]
Idle == Call("idle", "", NoId, NoDto, EmptyToken, Ret("none", NoError, <<>>, <<>>), <<>>, <<>>)

Init ==
    /\ notes = <<>>
    /\ tokens = <<>>
    /\ noteSeq = 0
    /\ tokenSeq = 0
    /\ now = 0
    /\ last = Idle

\* the clock advances between calls
Tick ==
    /\ last = Idle
    /\ now < MaxClock
    /\ now' = now + 1
    /\ UNCHANGED <<notes, tokens, noteSeq, tokenSeq, last>>

\* the caller takes the result; the next call can start
Return ==
    /\ last # Idle
    /\ last' = Idle
    /\ UNCHANGED <<notes, tokens, noteSeq, tokenSeq, now>>

\* the id taken from the number of stored notes, so that the id of a deleted note comes back
CreateNote_ReuseId(userId, dto) ==
    LET r == createNote(notes, Len(notes) + 1, now, userId, dto) IN
    /\ last = Idle
    /\ notes' = r.notes
    /\ noteSeq' = IF r.kind = "note" THEN noteSeq + 1 ELSE noteSeq
    /\ last' = Call("createNote", userId, NoId, dto, EmptyToken, r, <<>>, <<>>)
    /\ UNCHANGED <<tokens, tokenSeq, now>>

\* notesService.createNote(userId, dto)
CreateNote(userId, dto) ==
    LET r == createNote(notes, noteSeq + 1, now, userId, dto) IN
    /\ last = Idle
    /\ notes' = r.notes
    /\ noteSeq' = IF r.kind = "note" THEN noteSeq + 1 ELSE noteSeq
    /\ last' = Call("createNote", userId, NoId, dto, EmptyToken, r, <<>>, <<>>)
    /\ UNCHANGED <<tokens, tokenSeq, now>>

\* notesService.getUserNotes(userId)
GetUserNotes(userId) ==
    /\ last = Idle
    /\ last' = Call("getUserNotes", userId, NoId, NoDto, EmptyToken,
                    Ret("list", NoError, <<>>, notes), getUserNotes(notes, userId), <<>>)
    /\ UNCHANGED <<notes, tokens, noteSeq, tokenSeq, now>>

\* notesService.getNote(noteId)
GetNote(noteId) ==
    /\ last = Idle
    /\ last' = Call("getNote", "", noteId, NoDto, EmptyToken,
                    Ret("got", NoError, getNote(notes, noteId), notes), <<>>, <<>>)
    /\ UNCHANGED <<notes, tokens, noteSeq, tokenSeq, now>>

\* notesService.updateNote(noteId, userId, dto)
UpdateNote(noteId, userId, dto) ==
    LET r == updateNote(notes, now, noteId, userId, dto) IN
    /\ last = Idle
    /\ notes' = r.notes
    /\ last' = Call("updateNote", userId, noteId, dto, EmptyToken, r, <<>>, <<>>)
    /\ UNCHANGED <<tokens, noteSeq, tokenSeq, now>>

\* notesService.deleteNote(noteId, userId)
DeleteNote(noteId, userId) ==
    LET r == deleteNote(notes, noteId, userId) IN
    /\ last = Idle
    /\ notes' = r.notes
    /\ last' = Call("deleteNote", userId, noteId, NoDto, EmptyToken, r, <<>>, <<>>)
    /\ UNCHANGED <<tokens, noteSeq, tokenSeq, now>>

\* authService.generateToken(userId)
GenerateToken(userId) ==
    LET token == Token(tokenSeq + 1) IN
    /\ last = Idle
    /\ tokenSeq < MaxTokens
    /\ tokens' = saveToken(tokens, token, userId)
    /\ tokenSeq' = tokenSeq + 1
    /\ last' = Call("generateToken", userId, NoId, NoDto, token,
                    Ret("token", NoError, <<>>, notes), <<>>, <<>>)
    /\ UNCHANGED <<notes, noteSeq, now>>

\* authService.validateToken(token)
ValidateToken(token) ==
    /\ last = Idle
    /\ last' = Call("validateToken", "", NoId, NoDto, token,
                    Ret("userId", NoError, <<>>, notes), <<>>, validateToken(tokens, token))
    /\ UNCHANGED <<notes, tokens, noteSeq, tokenSeq, now>>

\* a create that would store a note is left out once max note ids are in use
Within(max, userId, dto) ==
    noteSeq < max \/ createNote(notes, noteSeq + 1, now, userId, dto).kind # "note"

Next ==
    \/ Tick
    \/ Return
    \/ last = Idle /\ \E u \in UserIds, dto \in Dtos :
            Within(MaxNotes, u, dto) /\ CreateNote(u, dto)
    \/ last = Idle /\ \E u \in UserIds : GetUserNotes(u)
    \/ last = Idle /\ \E id \in NoteIds : GetNote(id)
    \/ last = Idle /\ \E id \in NoteIds, u \in UserIds, dto \in Dtos :
            UpdateNote(id, u, dto)
    \/ last = Idle /\ \E id \in NoteIds, u \in UserIds : DeleteNote(id, u)

\* the Notes Core over time: two users, several notes, one request body of each kind
Spec == Init /\ [][Next]_vars

NextInputs ==
    \/ Return
    \/ last = Idle /\ \E u \in UserIds, dto \in AllDtos :
            Within(MaxInputNotes, u, dto) /\ CreateNote(u, dto)
    \/ last = Idle /\ \E u \in UserIds : GetUserNotes(u)
    \/ last = Idle /\ \E id \in NoteIds : GetNote(id)
    \/ last = Idle /\ \E id \in NoteIds, u \in UserIds, dto \in AllDtos :
            UpdateNote(id, u, dto)
    \/ last = Idle /\ \E id \in NoteIds, u \in UserIds : DeleteNote(id, u)

\* the Notes Core, every combination of a title and a body
SpecInputs == Init /\ [][NextInputs]_vars

NextAuth ==
    \/ Return
    \/ last = Idle /\ \E u \in UserIds : GenerateToken(u)
    \/ last = Idle /\ \E t \in TokenStrings : ValidateToken(t)
    \/ last = Idle /\ \E u \in UserIds, dto \in AuthDtos :
            Within(MaxAuthNotes, u, dto) /\ CreateNote(u, dto)
    \/ last = Idle /\ \E u \in UserIds : GetUserNotes(u)
    \/ last = Idle /\ \E id \in NoteIds : GetNote(id)
    \/ last = Idle /\ \E id \in NoteIds, u \in UserIds, dto \in AuthDtos :
            UpdateNote(id, u, dto)
    \/ last = Idle /\ \E id \in NoteIds, u \in UserIds : DeleteNote(id, u)

\* the Auth Core, with notes created, updated and deleted in between
SpecAuth == Init /\ [][NextAuth]_vars

(***************************************************************************)
(* The HTTP boundary: middleware/auth.ts, routes/auth.ts, routes/notes.ts. *)
(* A header value is its text cut at the blanks: a sequence of words and   *)
(* of single blanks, a token being one word.                               *)
(***************************************************************************)
Word(text) == [prefix |-> text, uuid |-> 0]
Space == Word(" ")
Bearer == Word("Bearer")
\* req.headers.authorization: undefined when the request has no such header
NoHeader == [kind |-> "undefined", words |-> <<>>]
Header(words) == [kind |-> "string", words |-> words]

\* authHeader.split(' '): the words between the blanks, the empty string where two
\* blanks meet or a blank starts or ends the text
RECURSIVE split(_)
split(words) ==
    IF words = <<>> THEN <<EmptyToken>>
    ELSE IF Head(words) = Space THEN <<EmptyToken>> \o split(Tail(words))
    ELSE IF Len(words) = 1 THEN <<Head(words)>>
    ELSE <<Head(words)>> \o split(Tail(Tail(words)))

\* what authMiddleware did: the 401 it sent or next(), req.userId, and whether
\* authService.validateToken was called
Auth(status, error, userId, next, consulted) ==
    [status |-> status, error |-> error, userId |-> userId, next |-> next,
     consulted |-> consulted]

\* the scheme not compared: any first word is taken for Bearer
authMiddleware_AnyScheme(ts, authHeader) ==
    LET parts == split(authHeader.words)
        token == parts[2]
        userId == validateToken(ts, token)
    IN  IF authHeader.kind = "undefined" \/ authHeader.words = <<>>
        THEN Auth(401, "Authorization header is missing", "", FALSE, FALSE)
        ELSE IF Len(parts) # 2
        THEN Auth(401, "Invalid authorization format. Use: Bearer <token>", "", FALSE, FALSE)
        ELSE IF userId = <<>>
        THEN Auth(401, "Invalid or expired token", "", FALSE, TRUE)
        ELSE Auth(0, NoError, userId[1], TRUE, TRUE)

\* authMiddleware
authMiddleware(ts, authHeader) ==
    LET parts == split(authHeader.words)
        token == parts[2]
        userId == validateToken(ts, token)
    IN  IF authHeader.kind = "undefined" \/ authHeader.words = <<>>
        THEN Auth(401, "Authorization header is missing", "", FALSE, FALSE)
        ELSE IF Len(parts) # 2 \/ parts[1] # Bearer
        THEN Auth(401, "Invalid authorization format. Use: Bearer <token>", "", FALSE, FALSE)
        ELSE IF userId = <<>>
        THEN Auth(401, "Invalid or expired token", "", FALSE, TRUE)
        ELSE Auth(0, NoError, userId[1], TRUE, TRUE)

\* the userId of a login body: left out, not a string, or a text cut at the blanks
NoUserId == [kind |-> "undefined", words |-> <<>>]
UserNum == [kind |-> "number", words |-> <<>>]
UserText(words) == [kind |-> "string", words |-> words]

\* userId.trim(): the words between the first and the last one that is not a blank
RECURSIVE trimWords(_)
trimWords(words) ==
    IF words = <<>> THEN <<>>
    ELSE IF Head(words) = " " THEN trimWords(Tail(words))
    ELSE IF words[Len(words)] = " " THEN trimWords(SubSeq(words, 1, Len(words) - 1))
    ELSE words

\* POST /auth/mock-login: !userId || typeof userId !== 'string' || userId.trim().length === 0
loginRefused(userId) ==
    \/ userId.kind = "undefined"
    \/ userId.kind = "string" /\ userId.words = <<>>
    \/ userId.kind # "string"
    \/ trimWords(userId.words) = <<>>

\* the status a notes route sends for the result of the core; a TypeError thrown in the
\* handler is answered 500 by express
statusOf(op, r) ==
    IF r.kind = "throw" THEN 500
    ELSE IF r.kind = "notFound" THEN 404
    ELSE IF r.kind = "forbidden" THEN 403
    ELSE IF r.kind = "error" THEN 400
    ELSE IF op = "POST /notes" THEN 201
    ELSE IF op = "DELETE /notes/:id" THEN 204
    ELSE 200

\* the requests: no Authorization header, an empty one, one word, another scheme, the
\* scheme in lower case, three parts, and Bearer with a token
HttpTokens == {Token(n) : n \in 1..(MaxHttpTokens + 1)} \cup {ToUpperCase(Token(1))}
Headers ==
    {NoHeader, Header(<<>>), Header(<<Bearer>>),
     Header(<<Word("Basic"), Space, Token(1)>>),
     Header(<<Word("bearer"), Space, Token(1)>>),
     Header(<<Bearer, Space, Space, Token(1)>>),
     Header(<<Bearer, Space, Token(1), Space, Token(2)>>)}
    \cup {Header(<<Bearer, Space, t>>) : t \in HttpTokens}
\* login bodies: userId left out, a number, empty, a blank, and one-word names
LoginBodies ==
    {NoUserId, UserNum, UserText(<<>>), UserText(<<" ">>),
     UserText(<<" ", "alice", " ">>), UserText(<<"bob">>)}
HttpNoteIds == {NoteId(n) : n \in 1..(MaxHttpNotes + 1)}

\* a request and its response: the fields of a call, and the Authorization header,
\* the status sent, whether next() was called and whether the Token Store was read
Http(op, header, noteId, dto, auth, r, list) ==
    [op |-> op, userId |-> auth.userId, noteId |-> noteId, dto |-> dto,
     token |-> EmptyToken, kind |-> r.kind,
     error |-> IF auth.next THEN r.error ELSE auth.error,
     note |-> r.note, list |-> list, value |-> <<>>,
     header |-> header, status |-> IF auth.next THEN statusOf(op, r) ELSE auth.status,
     next |-> auth.next, consulted |-> auth.consulted]
\* the handler was not called
NotReached == Ret("none", NoError, <<>>, <<>>)

\* POST /auth/mock-login
MockLogin(userId) ==
    LET refused == loginRefused(userId)
        trimmed == IF refused THEN "" ELSE trimWords(userId.words)[1]
        token == IF refused THEN EmptyToken ELSE Token(tokenSeq + 1)
    IN  /\ last = Idle
        /\ refused \/ tokenSeq < MaxHttpTokens
        /\ tokens' = IF refused THEN tokens ELSE saveToken(tokens, token, trimmed)
        /\ tokenSeq' = IF refused THEN tokenSeq ELSE tokenSeq + 1
        /\ last' = [op |-> "POST /auth/mock-login", userId |-> trimmed, noteId |-> NoId,
                    dto |-> NoDto, token |-> token, kind |-> "token",
                    error |-> IF refused
                              THEN "userId is required and must be a non-empty string"
                              ELSE NoError,
                    note |-> <<>>, list |-> <<>>, value |-> <<userId>>,
                    header |-> NoHeader, status |-> IF refused THEN 400 ELSE 200,
                    next |-> TRUE, consulted |-> FALSE]
        /\ UNCHANGED <<notes, noteSeq, now>>

\* POST /notes
PostNotes(header, dto) ==
    LET auth == authMiddleware(tokens, header)
        r == IF auth.next THEN createNote(notes, noteSeq + 1, now, auth.userId, dto)
             ELSE NotReached
    IN  /\ last = Idle
        /\ noteSeq < MaxHttpNotes \/ r.kind # "note"
        /\ notes' = IF auth.next THEN r.notes ELSE notes
        /\ noteSeq' = IF r.kind = "note" THEN noteSeq + 1 ELSE noteSeq
        /\ last' = Http("POST /notes", header, NoId, dto, auth, r, <<>>)
        /\ UNCHANGED <<tokens, tokenSeq, now>>

\* GET /notes
GetNotes(header) ==
    LET auth == authMiddleware(tokens, header)
        list == IF auth.next THEN getUserNotes(notes, auth.userId) ELSE <<>>
    IN  /\ last = Idle
        /\ last' = Http("GET /notes", header, NoId, NoDto, auth,
                        IF auth.next THEN Ret("list", NoError, <<>>, notes) ELSE NotReached,
                        list)
        /\ UNCHANGED <<notes, tokens, noteSeq, tokenSeq, now>>

\* PATCH /notes/:id
PatchNotes(header, noteId, dto) ==
    LET auth == authMiddleware(tokens, header)
        r == IF auth.next THEN updateNote(notes, now, noteId, auth.userId, dto)
             ELSE NotReached
    IN  /\ last = Idle
        /\ notes' = IF auth.next THEN r.notes ELSE notes
        /\ last' = Http("PATCH /notes/:id", header, noteId, dto, auth, r, <<>>)
        /\ UNCHANGED <<tokens, noteSeq, tokenSeq, now>>

\* DELETE /notes/:id
DeleteNotes(header, noteId) ==
    LET auth == authMiddleware(tokens, header)
        r == IF auth.next THEN deleteNote(notes, noteId, auth.userId) ELSE NotReached
    IN  /\ last = Idle
        /\ notes' = IF auth.next THEN r.notes ELSE notes
        /\ last' = Http("DELETE /notes/:id", header, noteId, NoDto, auth, r, <<>>)
        /\ UNCHANGED <<tokens, noteSeq, tokenSeq, now>>

NextHttp ==
    \/ Return
    \/ last = Idle /\ \E userId \in LoginBodies : MockLogin(userId)
    \/ last = Idle /\ \E h \in Headers, dto \in AuthDtos : PostNotes(h, dto)
    \/ last = Idle /\ \E h \in Headers : GetNotes(h)
    \/ last = Idle /\ \E h \in Headers, id \in HttpNoteIds, dto \in AuthDtos :
            PatchNotes(h, id, dto)
    \/ last = Idle /\ \E h \in Headers, id \in HttpNoteIds : DeleteNotes(h, id)

\* the routes, with logins and note requests of several users in any order
SpecHttp == Init /\ [][NextHttp]_vars

(***************************************************************************)
(* Properties.  A step Called(op) is the call of op: last' holds what the  *)
(* call was given and what it returned, the unprimed stores are the stores *)
(* before the call.                                                        *)
(***************************************************************************)
Called(op) == last = Idle /\ last'.op = op
Owner(ns, id) == getNote(ns, id)[1].userId
Issued(t) == \E n \in 1..tokenSeq : t = Token(n)

\* C1: updateNote and deleteNote on a stored note by a user who is not its owner
\* return forbidden, whatever the dto holds, and leave the whole Note Store as it was.
C1_ForbiddenForOthers ==
    [][(Called("updateNote") \/ Called("deleteNote"))
       /\ HasNote(notes, last'.noteId)
       /\ Owner(notes, last'.noteId) # last'.userId
       => last'.kind = "forbidden" /\ notes' = notes]_vars

\* a second user's update with a valid title and body is refused while two notes are stored
C1_Witness ==
    /\ last.op = "updateNote"
    /\ last.kind = "forbidden"
    /\ last.dto = Dto(TitleA, Body500)
    /\ Len(notes) = 2
    /\ HasNote(notes, last.noteId)

\* C2: a token that generateToken returned for userId u resolves to u right after the
\* issue, and no later step of any operation changes what a resolving token resolves to.
C2_TokenResolves ==
    /\ [](last.op = "generateToken" => validateToken(tokens, last.token) = <<last.userId>>)
    /\ [][\A t \in TokenStrings :
            validateToken(tokens, t) # <<>>
            => validateToken(tokens', t) = validateToken(tokens, t)]_vars

\* one user holds two live tokens and a note has since been created and deleted
C2_Witness ==
    /\ last.op = "deleteNote"
    /\ last.kind = "success"
    /\ noteSeq = 1
    /\ tokenSeq = 2
    /\ validateToken(tokens, Token(1)) = <<"alice">>
    /\ validateToken(tokens, Token(2)) = <<"alice">>

\* C3: validateToken of a string that generateToken never returned yields null, for the
\* empty string and for an issued token in another letter case too, and the call leaves
\* the Token Store as it was.
C3_UnknownTokenAbsent ==
    /\ [](last.op = "validateToken" /\ ~Issued(last.token)
          => last.kind = "userId" /\ last.value = <<>>)
    /\ [][Called("validateToken") => tokens' = tokens]_vars

\* the upper-case spelling of an issued token is looked up and not found
C3_Witness ==
    /\ last.op = "validateToken"
    /\ last.token = ToUpperCase(Token(1))
    /\ validateToken(tokens, Token(1)) = <<"bob">>
    /\ last.value = <<>>

(***************************************************************************)
(* What the properties say about a title or a body, read off the text.     *)
(***************************************************************************)
IsText(v) == v.kind = "string"
\* a title or body as the declared types allow it: a string, or left out
Typed(v) == v.kind \in {"string", "undefined"}
\* the positions of the runs that are not blanks
Letters(v) == {i \in 1..Len(v.runs) : v.runs[i].c # " "}
Min(S) == CHOOSE x \in S : \A y \in S : x <= y
Max(S) == CHOOSE x \in S : \A y \in S : x >= y
\* empty or whitespace only
Blank(v) == IsText(v) /\ Letters(v) = {}
\* the text from the first to the last character that is not a blank
Trimmed(v) == IF Letters(v) = {} THEN EmptyStr
              ELSE Str(SubSeq(v.runs, Min(Letters(v)), Max(Letters(v))))
Chars(v) == RunsLen(v.runs)
TitleRequired(t) == t.kind = "undefined" \/ Blank(t)
TitleTooLong(t) == IsText(t) /\ Chars(Trimmed(t)) > MaxTitleLen
TitleInvalid(t) == TitleRequired(t) \/ TitleTooLong(t)
TitleErrorOf(t) == IF TitleRequired(t) THEN "Title is required"
                   ELSE "Title must not exceed 80 characters"
BodyTooLong(b) == IsText(b) /\ Chars(b) > MaxBodyLen
Failed(call, message) == call.kind = "error" /\ call.error = message
\* the call returned a note and that note is what the store holds under its id
Stored(call, ns) == call.kind = "note" /\ getNote(ns, call.note[1].id) = call.note

\* C4: updateNote reports existence first, ownership second, field validation last: an
\* absent id gives notFound and another user's note gives forbidden whatever the dto
\* holds, and a validation error is returned only to the owner of an existing note.
C4_FirstFailureOrder ==
    [][Called("updateNote") =>
         /\ ~HasNote(notes, last'.noteId) => last'.kind = "notFound"
         /\ HasNote(notes, last'.noteId) /\ Owner(notes, last'.noteId) # last'.userId
            => last'.kind = "forbidden"
         /\ last'.kind = "error"
            => HasNote(notes, last'.noteId) /\ Owner(notes, last'.noteId) = last'.userId]_vars

\* another user's update with a blank title and a body of 501 characters is forbidden
C4_Witness ==
    /\ last.op = "updateNote"
    /\ last.kind = "forbidden"
    /\ last.dto = Dto(Blank2, Body501)
    /\ HasNote(notes, last.noteId)

\* C5: createNote with a string or no title and a valid body fails with "Title is
\* required" exactly when the title is left out, empty or whitespace only, fails with
\* "Title must not exceed 80 characters" exactly when the trimmed title has more than 80
\* characters, and otherwise stores the note with the trimmed title; a failure leaves the
\* Note Store as it was.
C5_CreateTitleRule ==
    [][Called("createNote") /\ Typed(last'.dto.title)
       /\ Typed(last'.dto.body) /\ ~BodyTooLong(last'.dto.body) =>
         /\ Failed(last', "Title is required") <=> TitleRequired(last'.dto.title)
         /\ Failed(last', "Title must not exceed 80 characters")
            <=> TitleTooLong(last'.dto.title)
         /\ ~TitleInvalid(last'.dto.title)
            => Stored(last', notes') /\ last'.note[1].title = Trimmed(last'.dto.title)
         /\ last'.kind = "error" => notes' = notes]_vars

\* a title of 82 characters, 80 after trimming, was accepted and stored trimmed
C5_Witness ==
    /\ last.op = "createNote"
    /\ Chars(last.dto.title) = MaxTitleLen + 2
    /\ Stored(last, notes)
    /\ Chars(last.note[1].title) = MaxTitleLen

\* C6: createNote with a valid title and a string or no body fails with "Body must not
\* exceed 500 characters" exactly when the body has more than 500 characters, untrimmed,
\* and then leaves the Note Store as it was; otherwise it stores the note with the body
\* as given, or with the empty string when the body is left out.
C6_CreateBodyRule ==
    [][Called("createNote") /\ IsText(last'.dto.title) /\ ~TitleInvalid(last'.dto.title)
       /\ Typed(last'.dto.body) =>
         /\ Failed(last', "Body must not exceed 500 characters")
            <=> BodyTooLong(last'.dto.body)
         /\ BodyTooLong(last'.dto.body) => notes' = notes
         /\ ~BodyTooLong(last'.dto.body)
            => /\ Stored(last', notes')
               /\ last'.note[1].body = IF last'.dto.body.kind = "undefined" THEN EmptyStr
                                       ELSE last'.dto.body]_vars

\* a body of 500 characters that starts and ends with a blank was stored as given
C6_Witness ==
    /\ last.op = "createNote"
    /\ last.dto.body = Body500
    /\ Stored(last, notes)
    /\ last.note[1].body.runs[1].c = " "
    /\ Chars(last.note[1].body) = MaxBodyLen

\* C7: when title and body are both invalid, createNote returns the title's error; so
\* does updateNote by the owner when both fields are supplied and invalid.
C7_TitleBeforeBody ==
    [][/\ Called("createNote") /\ Typed(last'.dto.title)
          /\ TitleInvalid(last'.dto.title) /\ BodyTooLong(last'.dto.body)
          => Failed(last', TitleErrorOf(last'.dto.title))
       /\ Called("updateNote") /\ HasNote(notes, last'.noteId)
          /\ Owner(notes, last'.noteId) = last'.userId /\ IsText(last'.dto.title)
          /\ TitleInvalid(last'.dto.title) /\ BodyTooLong(last'.dto.body)
          => Failed(last', TitleErrorOf(last'.dto.title))]_vars

\* the owner's update with a title of 81 and a body of 501 characters got the title error
C7_Witness ==
    /\ last.op = "updateNote"
    /\ last.dto = Dto(Title81, Body501)
    /\ Failed(last, "Title must not exceed 80 characters")
    /\ HasNote(notes, last.noteId)
    /\ Owner(notes, last.noteId) = last.userId

\* C8: every stored note has a title that is text, not empty, not whitespace only and at
\* most 80 characters long, and a body that holds at most 500 characters.
C8_StoredNotesValid ==
    \A i \in 1..Len(notes) :
        /\ IsText(notes[i].title)
        /\ ~Blank(notes[i].title)
        /\ Chars(notes[i].title) <= MaxTitleLen
        /\ Chars(notes[i].body) <= MaxBodyLen

\* C9: every call of createNote, updateNote and deleteNote returns one of its outcomes
\* and never throws.
C9_NeverThrows ==
    /\ last.op = "createNote" => last.kind \in {"note", "error"}
    /\ last.op = "updateNote" => last.kind \in {"note", "notFound", "forbidden", "error"}
    /\ last.op = "deleteNote" => last.kind \in {"success", "notFound", "forbidden"}

\* C10: updateNote by the owner of a stored note with title and body both left out fails
\* with "No updatable fields provided" and leaves the note as it was, updatedAt included.
C10_NoFieldsRejected ==
    [][Called("updateNote") /\ HasNote(notes, last'.noteId)
       /\ Owner(notes, last'.noteId) = last'.userId
       /\ last'.dto.title.kind = "undefined" /\ last'.dto.body.kind = "undefined"
       => Failed(last', "No updatable fields provided") /\ notes' = notes]_vars

\* the rejected update came later than the note's last successful one
C10_Witness ==
    /\ last.op = "updateNote"
    /\ Failed(last, "No updatable fields provided")
    /\ HasNote(notes, last.noteId)
    /\ getNote(notes, last.noteId)[1].updatedAt = toISOString(0)
    /\ now = 1

\* the note stored under id in ns
NoteOf(ns, id) == getNote(ns, id)[1]
\* every note but the one under id is in after where and as it was in before
OthersKept(before, after, id) ==
    /\ Len(after) = Len(before)
    /\ \A i \in 1..Len(before) : before[i].id # id => after[i] = before[i]

\* C11: a successful updateNote stores the trimmed title if one was supplied and the old
\* title otherwise, the body as given if one was supplied and the old body otherwise,
\* the current instant as updatedAt, and keeps the note's id, userId and createdAt; every
\* other stored note is as it was before the call.
C11_UpdateFrame ==
    [][Called("updateNote") /\ last'.kind = "note"
       => LET id == last'.noteId
              dto == last'.dto
              old == NoteOf(notes, id)
              new == NoteOf(notes', id)
          IN  /\ HasNote(notes, id) /\ HasNote(notes', id)
              /\ last'.note = <<new>>
              /\ new.title = IF dto.title.kind # "undefined" THEN Trimmed(dto.title)
                             ELSE old.title
              /\ new.body = IF dto.body.kind # "undefined" THEN dto.body ELSE old.body
              /\ new.updatedAt = toISOString(now)
              /\ new.id = old.id /\ new.userId = old.userId
              /\ new.createdAt = old.createdAt
              /\ OthersKept(notes, notes', id)]_vars

\* a later update gave the first of two stored notes a title with spaces around it and
\* a body of the longest length
C11_Witness ==
    /\ last.op = "updateNote"
    /\ last.kind = "note"
    /\ last.dto = Dto(TitleA, Body500)
    /\ Len(notes) = 2
    /\ notes[1].id = last.noteId
    /\ notes[1].createdAt = toISOString(0)
    /\ notes[1].updatedAt = toISOString(1)
    /\ notes[1].body = Body500
    /\ notes[2].userId # notes[1].userId

\* updateNote is called by the owner of a stored note
OwnerUpdates ==
    /\ Called("updateNote")
    /\ HasNote(notes, last'.noteId)
    /\ Owner(notes, last'.noteId) = last'.userId

\* C12: in updateNote by the owner, a supplied title that is empty or blanks only fails
\* with "Title is required" and leaves the stored note as it was; a title left out, with
\* a valid body supplied, succeeds and keeps the old title; and a supplied title of text
\* is refused exactly when createNote refuses it, with the same message.
C12_BlankTitleNotOmitted ==
    [][OwnerUpdates
       => LET dto == last'.dto
              old == NoteOf(notes, last'.noteId)
              new == NoteOf(notes', last'.noteId)
          IN  /\ Blank(dto.title)
                 => Failed(last', "Title is required") /\ notes' = notes
              /\ dto.title.kind = "undefined" /\ IsText(dto.body) /\ ~BodyTooLong(dto.body)
                 => last'.kind = "note" /\ new.title = old.title
              /\ IsText(dto.title) /\ TitleInvalid(dto.title)
                 => Failed(last', TitleErrorOf(dto.title)) /\ notes' = notes
              /\ IsText(dto.title) /\ ~TitleInvalid(dto.title)
                 => last'.error \notin {"Title is required",
                                        "Title must not exceed 80 characters"}
              /\ IsText(dto.title)
                 => LET made == createNote(notes, noteSeq + 1, now, last'.userId, dto)
                    IN  last'.kind = made.kind /\ last'.error = made.error]_vars

\* a title of two blanks sent along with a valid body is refused for a note that has an
\* 80-character title and was updated before
C12_Witness ==
    /\ last.op = "updateNote"
    /\ Failed(last, "Title is required")
    /\ last.dto = Dto(Blank2, Body500)
    /\ HasNote(notes, last.noteId)
    /\ NoteOf(notes, last.noteId).userId = last.userId
    /\ NoteOf(notes, last.noteId).title = Trimmed(Title80)
    /\ NoteOf(notes, last.noteId).body = EmptyStr
    /\ NoteOf(notes, last.noteId).updatedAt # Absent

\* createNote returned a note under id at some time, and no note is stored under it now
DeletedIn(ns, seq, id) == (\E n \in 1..seq : id = NoteId(n)) /\ ~HasNote(ns, id)
Deleted(id) == DeletedIn(notes, noteSeq, id)

\* C13: updateNote and deleteNote on an id with no stored note return notFound for every
\* userId and dto and change neither store; after a successful deleteNote the id has no
\* note, an id once deleted stays without a note through every later step, getNote of
\* it returns nothing and no listing holds a note with it.
C13_DeletedIsAbsorbing ==
    /\ [][(Called("updateNote") \/ Called("deleteNote")) /\ ~HasNote(notes, last'.noteId)
          => last'.kind = "notFound" /\ notes' = notes /\ tokens' = tokens]_vars
    /\ [][Called("deleteNote") /\ last'.kind = "success"
          => HasNote(notes, last'.noteId) /\ DeletedIn(notes', noteSeq', last'.noteId)]_vars
    /\ [][\A id \in NoteIds : Deleted(id) => DeletedIn(notes', noteSeq', id)]_vars
    /\ [](last.op = "getNote" /\ Deleted(last.noteId) => last.note = <<>>)
    /\ [](last.op = "getUserNotes"
          => \A i \in 1..Len(last.list) : ~Deleted(last.list[i].id))

\* the first note was deleted, a second one was created after it, and the former
\* owner's update of the deleted id with a valid title and body is not found
C13_Witness ==
    /\ last.op = "updateNote"
    /\ last.kind = "notFound"
    /\ last.noteId = NoteId(1)
    /\ last.dto = Dto(TitleA, Body500)
    /\ noteSeq = 2
    /\ Len(notes) = 1
    /\ notes[1].id = NoteId(2)
    /\ notes[1].userId = last.userId

\* createNote returned note a before it returned note b
CreatedBefore(a, b) == \E m, n \in 1..noteSeq : m < n /\ a.id = NoteId(m) /\ b.id = NoteId(n)

\* C14: in every result of getUserNotes, of two notes the one created later comes before
\* the one created earlier, also when the two were created with no time between them.
C14_NewestFirst ==
    last.op = "getUserNotes"
    => \A i, j \in 1..Len(last.list) : i < j => CreatedBefore(last.list[j], last.list[i])

\* the positions of the note with this id in a list
PositionsOf(list, id) == {i \in 1..Len(list) : list[i].id = id}
\* notes a and b of the list, created at different instants, are in the same order in
\* both lists
SameOrder(before, after) ==
    \A i, j \in 1..Len(before) :
        i < j /\ before[i].createdAt # before[j].createdAt
        => \E k, l \in 1..Len(after) :
              k < l /\ after[k].id = before[i].id /\ after[l].id = before[j].id

\* C15: getUserNotes(u) returns the stored notes whose userId is u, each once and as
\* stored, and nothing else, in non-increasing order of createdAt; the call changes
\* neither store; and a successful update leaves the order of every user's list as it
\* was between notes of different createdAt.
C15_ListIsOwnersNotes ==
    /\ [][Called("getUserNotes")
          => LET list == last'.list
                 u == last'.userId
             IN  /\ notes' = notes /\ tokens' = tokens
                 /\ \A i \in 1..Len(list) :
                       list[i].userId = u /\ getNote(notes, list[i].id) = <<list[i]>>
                 /\ \A k \in 1..Len(notes) :
                       Cardinality(PositionsOf(list, notes[k].id))
                       = IF notes[k].userId = u THEN 1 ELSE 0
                 /\ \A i, j \in 1..Len(list) :
                       i < j => getTime(list[i].createdAt) >= getTime(list[j].createdAt)]_vars
    /\ [][Called("updateNote") /\ last'.kind = "note"
          => \A u \in UserIds :
                /\ Len(getUserNotes(notes', u)) = Len(getUserNotes(notes, u))
                /\ SameOrder(getUserNotes(notes, u), getUserNotes(notes', u))]_vars

\* the list holds a user's two notes, the newer one first, after the older one was
\* updated at the instant the newer one was created
C15_Witness ==
    /\ last.op = "getUserNotes"
    /\ Len(last.list) = 2
    /\ last.list[1].id = NoteId(2)
    /\ last.list[1].createdAt = toISOString(1)
    /\ last.list[2].createdAt = toISOString(0)
    /\ last.list[2].updatedAt = toISOString(1)
    /\ last.list[2].body = Body500

\* the step is a successful updateNote of the note under id
UpdateSucceeds(id) == Called("updateNote") /\ last'.kind = "note" /\ last'.noteId = id

\* C16: a stored note has an updatedAt exactly when an updateNote on it has succeeded:
\* a note enters the store only by createNote and without an updatedAt, a successful
\* updateNote gives the note an updatedAt, and no other step, an update that ends in
\* notFound, forbidden or an error included, adds an updatedAt or changes one.
C16_UpdatedAtIffUpdated ==
    [][\A id \in NoteIds :
          /\ ~HasNote(notes, id) /\ HasNote(notes', id)
             => Called("createNote") /\ last'.note = <<NoteOf(notes', id)>>
                /\ NoteOf(notes', id).updatedAt = Absent
          /\ HasNote(notes, id) /\ UpdateSucceeds(id)
             => HasNote(notes', id) /\ NoteOf(notes', id).updatedAt # Absent
          /\ HasNote(notes, id) /\ HasNote(notes', id) /\ ~UpdateSucceeds(id)
             => NoteOf(notes', id).updatedAt = NoteOf(notes, id).updatedAt]_vars

\* an update with an invalid title and body fails on a note that was never updated,
\* next to a note that was updated
C16_Witness ==
    /\ last.op = "updateNote"
    /\ last.kind = "error"
    /\ last.dto = Dto(Blank2, Body501)
    /\ Len(notes) = 2
    /\ last.noteId = notes[2].id
    /\ notes[2].updatedAt = Absent
    /\ notes[1].updatedAt = toISOString(1)
    /\ notes[1].createdAt = toISOString(0)

\* the step is a request to a notes endpoint
NotesRoutes == {"POST /notes", "GET /notes", "PATCH /notes/:id", "DELETE /notes/:id"}
NotesRequest == last = Idle /\ last'.op \in NotesRoutes
\* what the text of an Authorization header says: it is missing or empty; the number of
\* its parts between blanks; its first part; Bearer, one blank and a token
Missing(h) == h.kind = "undefined" \/ h.words = <<>>
PartsCount(h) == Cardinality({i \in 1..Len(h.words) : h.words[i] = Space}) + 1
SchemeIsBearer(h) == h.words # <<>> /\ h.words[1] = Bearer
Malformed(h) == Missing(h) \/ ~SchemeIsBearer(h) \/ PartsCount(h) # 2
WellFormed(h) ==
    /\ h.kind = "string" /\ Len(h.words) = 3
    /\ h.words[1] = Bearer /\ h.words[2] = Space /\ h.words[3] # Space
Presented(h) == h.words[3]
\* the login that returned token t was for user u
IssuedFor(t, u) == Issued(t) /\ \E i \in 1..Len(tokens) : tokens[i] = [token |-> t, userId |-> u]

\* C17: a request to a notes endpoint changes the Note Store only if it presents a token
\* issued for some user u, and then every note it adds, changes or removes is owned by
\* u before and after; the notes it returns are owned by u; logins change no note.
C17_OwnNotesOnly ==
    /\ [][NotesRequest
          => LET h == last'.header
                 u == last'.userId
                 touched == {id \in HttpNoteIds : getNote(notes', id) # getNote(notes, id)}
             IN  /\ notes' # notes \/ last'.next
                    => WellFormed(h) /\ IssuedFor(Presented(h), u)
                 /\ Len(notes') # Len(notes) \/ notes' # notes => touched # {}
                 /\ \A id \in touched :
                       /\ HasNote(notes, id) => Owner(notes, id) = u
                       /\ HasNote(notes', id) => Owner(notes', id) = u
                 /\ \A i \in 1..Len(last'.list) : last'.list[i].userId = u
                 /\ \A i \in 1..Len(last'.note) : last'.note[i].userId = u]_vars
    /\ [][notes' # notes => NotesRequest]_vars

\* the second user's request to delete the first user's note is answered 403 while each
\* of the two users has a note
C17_Witness ==
    /\ last.op = "DELETE /notes/:id"
    /\ last.status = 403
    /\ last.userId = "bob"
    /\ Len(notes) = 2
    /\ HasNote(notes, last.noteId)
    /\ Owner(notes, last.noteId) = "alice"
    /\ \E i \in 1..2 : notes[i].userId = "bob"

\* C18: a request to a notes endpoint whose Authorization header is missing, has another
\* scheme than Bearer or has not two parts is answered 401 with the Token Store not
\* read; one that carries a token never issued is answered 401; in both cases the handler
\* is not called and both stores stay as they were.  A request with Bearer and an issued
\* token reaches the handler with the userId the token was issued for.
C18_Unauthorized ==
    [][NotesRequest
       => LET h == last'.header IN
          /\ Malformed(h)
             => /\ last'.status = 401 /\ ~last'.next /\ ~last'.consulted
                /\ notes' = notes /\ tokens' = tokens
          /\ WellFormed(h) /\ ~Issued(Presented(h))
             => /\ last'.status = 401 /\ ~last'.next
                /\ notes' = notes /\ tokens' = tokens
          /\ WellFormed(h) /\ Issued(Presented(h))
             => /\ last'.next /\ last'.status # 401
                /\ IssuedFor(Presented(h), last'.userId)
                /\ tokens' = tokens]_vars

\* an update of a stored note that presents the first issued token in upper case is
\* answered 401 after the Token Store was read
C18_Witness ==
    /\ last.op = "PATCH /notes/:id"
    /\ last.status = 401
    /\ last.header = Header(<<Bearer, Space, ToUpperCase(Token(1))>>)
    /\ last.consulted
    /\ tokenSeq >= 1
    /\ HasNote(notes, last.noteId)
====
